---- MODULE Spec2Model ----
(***************************************************************************)
(* A model of the ID3v2 tag decoder of src/src/main.rs: the byte cursor    *)
(* (ByteReader), the tag header, the extended header, the frame loop, the  *)
(* frame content decoder and the lookups by frame name.                    *)
(*                                                                         *)
(* Bytes are naturals in 0..255.  A Rust String is modelled by its UTF-8   *)
(* byte sequence, a Vec<u8> by a sequence of bytes, an Option<T> by a      *)
(* sequence of length 0 (None) or 1 (Some).  In an action, \E x \in {e}     *)
(* names the value of e, as a `let` of the code does.                      *)
(***************************************************************************)
EXTENDS Integers, Sequences, FiniteSets, TLC

VARIABLES
    stream,   \* the bytes of the underlying Read + Seek source
    pos,      \* the cursor of the source
    pc,       \* where ID3::new_from_byte_reader stands
    fault,    \* why the decode failed ("" while it has not)
    header,   \* Option<ID3Header>: the decoded tag header
    size,     \* the local `size` of ID3::new_from_byte_reader
    fhdr,     \* Option<ID3FrameHeader>: what the frame header decoder returned
    frames,   \* the local `frames` of ID3Body::new_from_byte_reader, then ID3Body.frames
    idpos,    \* the cursor before the latest identifier read
    idbuf,    \* the local `id` of ID3FrameHeader::new_from_byte_reader
    result,   \* what the latest lookup returned
    arg,      \* the input of a function applied on its own
    ret       \* what that function returned

vars == <<stream, pos, pc, fault, header, size, fhdr, frames, idpos, idbuf, result, arg, ret>>

----------------------------------------------------------------------------
(* Bounds of the model *)

\* the most frames placed in a stream
MaxFrames == 2

\* the most bytes cut off the end of a stream
MaxCut == 3

\* the most text bytes after the encoding byte of a frame body decoded on its own
MaxText == 3

----------------------------------------------------------------------------
(* Arithmetic helpers *)

Min(a, b) == IF a < b THEN a ELSE b

Max(a, b) == IF a > b THEN a ELSE b

Pow2(n) == 2 ^ n

\* bit k of the word w
Bit(w, k) == (w \div Pow2(k)) % 2

\* w & mask, for a mask of one bit
HasMask(w, mask) == (w \div mask) % 2 = 1

\* a u32 that may pass 2^31 is held as its two 16-bit halves
U32Of(v) == [hi |-> v \div 65536, lo |-> v % 65536]

\* a - b in u32 arithmetic without overflow checks, for a < b
U32WrappingSub(a, b) ==
    LET d  == b - a
        dh == d \div 65536
        dl == d % 65536
    IN  IF dl = 0 THEN [hi |-> 65536 - dh, lo |-> 0]
        ELSE [hi |-> 65535 - dh, lo |-> 65536 - dl]

----------------------------------------------------------------------------
(* The byte cursor: impl<T: Read + Seek> ByteReader for T *)

\* read_bytes: a buffer of n zero bytes, filled by ONE read() call; the cursor
\* moves by the bytes read and the result is Ok whatever their number.  The
\* source is a file (main opens a File), whose read() delivers every byte it
\* still has, up to n.
ReadBytes(s, p, n) ==
    LET avail == Max(0, Len(s) - p)
        got   == Min(n, avail)
    IN  [ok  |-> TRUE,
         buf |-> [i \in 1..n |-> IF i <= got THEN s[p + i] ELSE 0],
         got |-> got,
         pos |-> p + got]

\* seek(SeekFrom::Current(delta)): an error when the target precedes the start
SeekCurrent(p, delta) ==
    IF p + delta < 0
    THEN [ok |-> FALSE, pos |-> p]
    ELSE [ok |-> TRUE, pos |-> p + delta]

\* u8 / u16 / u32 ::from_be_bytes
FromBeBytes(buf) ==
    LET RECURSIVE go(_, _)
        go(i, acc) == IF i > Len(buf) THEN acc ELSE go(i + 1, acc * 256 + buf[i])
    IN  go(1, 0)

\* the arithmetic of read_u32_syncsafe on the 4 bytes read (the sum is at most
\* 255 * 2113665, so the u32 never overflows)
U32Syncsafe(buffer) ==
    buffer[1] * Pow2(21) + buffer[2] * Pow2(14) + buffer[3] * Pow2(7) + buffer[4]

ReadU8(s, p) ==
    LET r == ReadBytes(s, p, 1) IN [val |-> FromBeBytes(r.buf), pos |-> r.pos]

ReadU16(s, p) ==
    LET r == ReadBytes(s, p, 2) IN [val |-> FromBeBytes(r.buf), pos |-> r.pos]

ReadU32(s, p) ==
    LET r == ReadBytes(s, p, 4) IN [val |-> FromBeBytes(r.buf), pos |-> r.pos]

ReadU32Syncsafe(s, p) ==
    LET r == ReadBytes(s, p, 4) IN [val |-> U32Syncsafe(r.buf), pos |-> r.pos]

----------------------------------------------------------------------------
(* String::from_utf8_lossy, on the UTF-8 bytes of the resulting String *)

\* U+FFFD REPLACEMENT CHARACTER in UTF-8
Replacement == <<239, 191, 189>>

IsCont(b) == b >= 128 /\ b <= 191

\* the byte at index i, or 0 past the end (safe_get of Utf8Chunks)
SafeGet(b, i) == IF i <= Len(b) THEN b[i] ELSE 0

\* the second byte a three- or four-byte sequence led by `first` admits
SecondOk(first, second) ==
    CASE first = 224 -> second >= 160 /\ second <= 191
      [] first >= 225 /\ first <= 236 -> IsCont(second)
      [] first = 237 -> second >= 128 /\ second <= 159
      [] first >= 238 /\ first <= 239 -> IsCont(second)
      [] first = 240 -> second >= 144 /\ second <= 191
      [] first >= 241 /\ first <= 243 -> IsCont(second)
      [] first = 244 -> second >= 128 /\ second <= 143
      [] OTHER -> FALSE

\* the chunk starting at index i: [valid, len]
Utf8Chunk(b, i) ==
    LET first == b[i] IN
    IF first < 128 THEN [valid |-> TRUE, len |-> 1]
    ELSE IF first >= 194 /\ first <= 223
    THEN IF IsCont(SafeGet(b, i + 1)) THEN [valid |-> TRUE, len |-> 2]
         ELSE [valid |-> FALSE, len |-> 1]
    ELSE IF first >= 224 /\ first <= 239
    THEN IF ~SecondOk(first, SafeGet(b, i + 1)) THEN [valid |-> FALSE, len |-> 1]
         ELSE IF ~IsCont(SafeGet(b, i + 2)) THEN [valid |-> FALSE, len |-> 2]
         ELSE [valid |-> TRUE, len |-> 3]
    ELSE IF first >= 240 /\ first <= 244
    THEN IF ~SecondOk(first, SafeGet(b, i + 1)) THEN [valid |-> FALSE, len |-> 1]
         ELSE IF ~IsCont(SafeGet(b, i + 2)) THEN [valid |-> FALSE, len |-> 2]
         ELSE IF ~IsCont(SafeGet(b, i + 3)) THEN [valid |-> FALSE, len |-> 3]
         ELSE [valid |-> TRUE, len |-> 4]
    ELSE [valid |-> FALSE, len |-> 1]

RECURSIVE Utf8LossyFrom(_, _)
Utf8LossyFrom(b, i) ==
    IF i > Len(b) THEN <<>>
    ELSE LET c == Utf8Chunk(b, i)
         IN  (IF c.valid THEN SubSeq(b, i, i + c.len - 1) ELSE Replacement)
                \o Utf8LossyFrom(b, i + c.len)

Utf8Lossy(b) == Utf8LossyFrom(b, 1)

----------------------------------------------------------------------------
(* bitflags *)

\* ID3HeaderFlags
EXTENDED_HEADER == 64

\* ID3FrameHeaderFlagsV3
V3_TAG_ALTER_PRESERVED == 32768

V3_FILE_ALTER_PRESERVED == 16384

V3_READ_ONLY == 8192

V3_COMPRESSED == 128

V3_ENCRYPTED == 64

V3_GROUPING == 32

\* ID3FrameHeaderFlags (the v2.4 layout, which is also the normalized one)
TAG_ALTER_PRESERVED == 16384

FILE_ALTER_PRESERVED == 8192

READ_ONLY == 4096

GROUPING == 64

COMPRESSED == 8

ENCRYPTED == 4

UNSYNCHRONISATION == 2

DATA_LENGTH_INDICATOR == 1

\* from_bits_truncate: the bits of w that are flags of the type
Truncate(w, masks) ==
    LET RECURSIVE sum(_)
        sum(ms) == IF ms = {} THEN 0
                   ELSE LET m == CHOOSE x \in ms : TRUE
                        IN  (IF HasMask(w, m) THEN m ELSE 0) + sum(ms \ {m})
    IN  sum(masks)

HeaderFlagsFromBitsTruncate(b) == (b \div 32) * 32

V3Masks ==
    {V3_TAG_ALTER_PRESERVED, V3_FILE_ALTER_PRESERVED, V3_READ_ONLY,
     V3_COMPRESSED, V3_ENCRYPTED, V3_GROUPING}

V4Masks ==
    {TAG_ALTER_PRESERVED, FILE_ALTER_PRESERVED, READ_ONLY, GROUPING,
     COMPRESSED, ENCRYPTED, UNSYNCHRONISATION, DATA_LENGTH_INDICATOR}

\* a faulty translation: Compressed and Encrypted exchanged
V3IntoSwapped(v3) ==
      (IF HasMask(v3, V3_TAG_ALTER_PRESERVED) THEN TAG_ALTER_PRESERVED ELSE 0)
    + (IF HasMask(v3, V3_FILE_ALTER_PRESERVED) THEN FILE_ALTER_PRESERVED ELSE 0)
    + (IF HasMask(v3, V3_READ_ONLY) THEN READ_ONLY ELSE 0)
    + (IF HasMask(v3, V3_COMPRESSED) THEN ENCRYPTED ELSE 0)
    + (IF HasMask(v3, V3_ENCRYPTED) THEN COMPRESSED ELSE 0)
    + (IF HasMask(v3, V3_GROUPING) THEN GROUPING ELSE 0)

\* impl Into<ID3FrameHeaderFlags> for ID3FrameHeaderFlagsV3
V3Into(v3) ==
      (IF HasMask(v3, V3_TAG_ALTER_PRESERVED) THEN TAG_ALTER_PRESERVED ELSE 0)
    + (IF HasMask(v3, V3_FILE_ALTER_PRESERVED) THEN FILE_ALTER_PRESERVED ELSE 0)
    + (IF HasMask(v3, V3_READ_ONLY) THEN READ_ONLY ELSE 0)
    + (IF HasMask(v3, V3_COMPRESSED) THEN COMPRESSED ELSE 0)
    + (IF HasMask(v3, V3_ENCRYPTED) THEN ENCRYPTED ELSE 0)
    + (IF HasMask(v3, V3_GROUPING) THEN GROUPING ELSE 0)

\* the `flags` of ID3FrameHeader::new_from_byte_reader, from the 16-bit word read
FrameHeaderFlags(version, w) ==
    IF version = 4 THEN Truncate(w, V4Masks) ELSE V3Into(Truncate(w, V3Masks))

\* the `header_size` of ID3FrameHeader::new_from_byte_reader
HeaderSize(flags) ==
    10 + (IF HasMask(flags, GROUPING) THEN 1 ELSE 0)
       + (IF HasMask(flags, DATA_LENGTH_INDICATOR) THEN 4 ELSE 0)

----------------------------------------------------------------------------
(* The frame content decoder *)

\* "T" and "TXXX" as Strings
StrT == <<84>>

StrTXXX == <<84, 88, 88, 88>>

StartsWith(str, prefix) ==
    Len(str) >= Len(prefix) /\ SubSeq(str, 1, Len(prefix)) = prefix

\* ID3FrameHeader::is_text_frame
IsTextFrame(id) == StartsWith(id, StrT) /\ id # StrTXXX

\* the `end` of text_frame_content: the index (from 0) of the first zero byte
\* of text, or text.len()
RECURSIVE ScanEnd(_, _)
ScanEnd(text, i) ==
    IF i >= Len(text) THEN Len(text)
    ELSE IF text[i + 1] = 0 THEN i
    ELSE ScanEnd(text, i + 1)

\* a faulty decoder: no scan for the terminator
TextFrameContentNoScan(content) ==
    LET enc  == content[1]
        text == SubSeq(content, 2, Len(content))
    IN  IF enc = 0 \/ enc = 3
        THEN Utf8Lossy(text)
        ELSE <<>>

\* ID3Frame::text_frame_content, for a content that has its first byte
TextFrameContent(content) ==
    LET enc  == content[1]
        text == SubSeq(content, 2, Len(content))
    IN  IF enc = 0 \/ enc = 3
        THEN Utf8Lossy(SubSeq(text, 1, ScanEnd(text, 0)))
        ELSE <<>>

\* the Some(header) arm of ID3Frame::new_from_byte_reader, once the body is
\* read: the frame, or the panic of content[0] on an empty text frame body
MakeFrame(h, buffer) ==
    IF IsTextFrame(h.id)
    THEN IF Len(buffer) = 0
         THEN [ok |-> FALSE, frame |-> <<>>]
         ELSE [ok |-> TRUE,
               frame |-> <<[kind |-> "Text", header |-> h,
                            text |-> TextFrameContent(buffer), body |-> <<>>]>>]
    ELSE [ok |-> TRUE,
          frame |-> <<[kind |-> "Unknown", header |-> h,
                       text |-> <<>>, body |-> buffer]>>]

----------------------------------------------------------------------------
(* The lookups of ID3Body *)

\* frames.iter().find(|frame| frame.get_header().id == name)
RECURSIVE FindFrom(_, _, _)
FindFrom(fs, name, i) ==
    IF i > Len(fs) THEN <<>>
    ELSE IF fs[i].header.id = name THEN <<fs[i]>>
    ELSE FindFrom(fs, name, i + 1)

\* a faulty lookup: the last match instead of the first
RECURSIVE FindLastFrom(_, _, _)
FindLastFrom(fs, name, i) ==
    IF i < 1 THEN <<>>
    ELSE IF fs[i].header.id = name THEN <<fs[i]>>
    ELSE FindLastFrom(fs, name, i - 1)

FindFrameByNameLast(fs, name) == FindLastFrom(fs, name, Len(fs))

\* ID3Body::find_frame_by_name
FindFrameByName(fs, name) == FindFrom(fs, name, 1)

\* ID3Body::find_frames_by_name:
\* frames.iter().filter(|frame| frame.get_header().id == name).collect()
RECURSIVE FilterFrom(_, _, _)
FilterFrom(fs, name, i) ==
    IF i > Len(fs) THEN <<>>
    ELSE (IF fs[i].header.id = name THEN <<fs[i]>> ELSE <<>>)
            \o FilterFrom(fs, name, i + 1)

FindFramesByName(fs, name) == FilterFrom(fs, name, 1)

----------------------------------------------------------------------------
(* The byte streams the decoder is run on *)

\* frame identifiers, as bytes
TIT2 == <<84, 73, 84, 50>>

TXXX == <<84, 88, 88, 88>>

APIC == <<65, 80, 73, 67>>

TALB == <<84, 65, 76, 66>>

LowerTit2 == <<116, 105, 116, 50>>

\* identifier, size field, flags field, then whatever follows the flags
FrameImages ==
    { TIT2 \o <<0, 0, 0, 3>> \o <<0, 0>> \o <<0, 72, 105>>,
      TIT2 \o <<0, 0, 0, 4>> \o <<0, 0>> \o <<3, 72, 0, 105>>,
      TIT2 \o <<0, 0, 0, 0>> \o <<0, 0>>,
      TXXX \o <<0, 0, 0, 2>> \o <<0, 0>> \o <<0, 65>>,
      TXXX \o <<0, 0, 1, 0>> \o <<0, 1>> \o <<0, 0, 0, 1, 1, 65>>,
      APIC \o <<0, 0, 0, 1>> \o <<0, 64>> \o <<7, 9>>,
      APIC \o <<0, 0, 0, 1>> \o <<0, 136>> \o <<9>> }

FrameSeqs == UNION { [1..n -> FrameImages] : n \in 0..MaxFrames }

RECURSIVE Flatten(_)
Flatten(ss) == IF Len(ss) = 0 THEN <<>> ELSE Head(ss) \o Flatten(Tail(ss))

\* the tag flags byte and the bytes of the extended header
ExtChoices ==
    { [flags |-> 0,  bytes |-> <<>>],
      [flags |-> 64, bytes |-> <<0, 0, 0, 4>>],
      [flags |-> 64, bytes |-> <<0, 0, 0, 127>>] }

Majors == {3, 4}

\* the padding of the tag
Pads == { <<>>, <<0, 0, 0, 0, 0, 0, 0, 0>> }

\* sources that end before the tag header does
ShortStreams == { SubSeq(<<73, 68, 51, 3, 0, 0, 0, 0, 0, 0>>, 1, n) : n \in 0..9 }

\* what follows the tag in the file (the start of an MPEG audio frame)
Audios == { <<>>, <<255, 251, 144, 0>> }

SyncsafeBytes(v) ==
    <<(v \div Pow2(21)) % 128, (v \div Pow2(14)) % 128, (v \div Pow2(7)) % 128, v % 128>>

\* "ID3", the version, the flags, the size of what follows the 10 bytes
TagHeaderBytes(major, flags, sz) ==
    <<73, 68, 51>> \o <<major, 0>> \o <<flags>> \o SyncsafeBytes(sz)

NoResult == [op |-> "", name |-> <<>>, value |-> <<>>]

\* a tag whose header declares its true size, then the audio, with the last
\* `cut` bytes of the file missing
TagStreams ==
    { LET tag  == ext.bytes \o Flatten(fs) \o pad
          full == TagHeaderBytes(major, ext.flags, Len(tag)) \o tag \o audio
      IN  SubSeq(full, 1, Len(full) - Min(cut, Len(full))) :
        major \in Majors, ext \in ExtChoices, fs \in FrameSeqs,
        pad \in Pads, audio \in Audios, cut \in 0..MaxCut }

Init ==
    /\ stream \in TagStreams \cup ShortStreams
    /\ pos = 0
    /\ pc = "header"
    /\ fault = ""
    /\ header = <<>>
    /\ size = U32Of(0)
    /\ fhdr = <<>>
    /\ frames = <<>>
    /\ idpos = 0
    /\ idbuf = <<>>
    /\ result = NoResult
    /\ arg = <<>>
    /\ ret = <<>>

----------------------------------------------------------------------------
(* ID3::new_from_byte_reader, step by step *)

\* ID3Header::new_from_byte_reader and `let mut size = header.size`
DecodeHeader ==
    /\ pc = "header"
    /\ \E tag \in {ReadBytes(stream, pos, 3)} :
       \E major \in {ReadU8(stream, tag.pos)} :
       \E minor \in {ReadU8(stream, major.pos)} :
       \E fl \in {ReadU8(stream, minor.pos)} :
       \E sz \in {ReadU32Syncsafe(stream, fl.pos)} :
       \E h \in {[version |-> <<major.val, minor.val>>,
                  flags   |-> HeaderFlagsFromBitsTruncate(fl.val),
                  size    |-> sz.val]} :
           /\ header' = <<h>>
           /\ size' = U32Of(h.size)
           /\ pos' = sz.pos
           /\ pc' = IF HasMask(h.flags, EXTENDED_HEADER) THEN "ext" ELSE "frames"
    /\ UNCHANGED <<stream, fault, fhdr, frames, idpos, idbuf, result, arg, ret>>

\* ID3ExtendedHeader::new_from_byte_reader and `size -= extended_header.size`:
\* a u32 subtraction, which panics on overflow in a build with overflow
\* checks and wraps in a build without
DecodeExtendedHeader ==
    /\ pc = "ext"
    /\ \E e \in {ReadU32Syncsafe(stream, pos)} :
           /\ pos' = e.pos
           /\ IF e.val <= header[1].size
              THEN /\ size' = U32Of(header[1].size - e.val)
                   /\ pc' = "frames"
                   /\ fault' = fault
              ELSE \/ /\ size' = size
                      /\ pc' = "panic"
                      /\ fault' = "attempt to subtract with overflow"
                   \/ /\ size' = U32WrappingSub(header[1].size, e.val)
                      /\ pc' = "frames"
                      /\ fault' = fault
    /\ UNCHANGED <<stream, header, fhdr, frames, idpos, idbuf, result, arg, ret>>

\* a faulty check: the zero byte never ends the frames
PaddingNever(id) == FALSE

\* `if id[0] == 0`
PaddingReached(id) == id[1] = 0

\* the size field of a frame header: `match version { 4 => ..., _ => ... }`
ReadFrameSize(version, s, p) ==
    IF version = 4 THEN ReadU32Syncsafe(s, p) ELSE ReadU32(s, p)

\* ID3FrameHeader::new_from_byte_reader
DecodeFrameHeader ==
    /\ pc = "frames"
    /\ \E version \in {header[1].version[1]} :
       \E id \in {ReadBytes(stream, pos, 4)} :
           /\ idpos' = pos
           /\ idbuf' = id.buf
           /\ IF PaddingReached(id.buf)
              THEN \E sk \in {SeekCurrent(id.pos, -4)} :
                       /\ pos' = sk.pos
                       /\ fhdr' = <<>>
                       /\ pc' = IF sk.ok THEN "none" ELSE "error"
                       /\ fault' = IF sk.ok THEN fault ELSE "invalid seek"
              ELSE \E sz \in {ReadFrameSize(version, stream, id.pos)} :
                   \E w \in {ReadU16(stream, sz.pos)} :
                   \E flags \in {FrameHeaderFlags(version, w.val)} :
                   \E hasG \in {HasMask(flags, GROUPING)} :
                   \E grp \in {IF hasG THEN ReadU8(stream, w.pos)
                                ELSE [val |-> 0, pos |-> w.pos]} :
                   \E hasD \in {HasMask(flags, DATA_LENGTH_INDICATOR)} :
                   \E dli \in {IF hasD THEN ReadU32Syncsafe(stream, grp.pos)
                                ELSE [val |-> 0, pos |-> grp.pos]} :
                   \E h \in {[id          |-> Utf8Lossy(id.buf),
                              size        |-> sz.val,
                              header_size |-> HeaderSize(flags),
                              uncompressed_body_size |->
                                  IF hasD THEN <<dli.val>> ELSE <<>>,
                              grouping_id |-> IF hasG THEN <<grp.val>> ELSE <<>>,
                              flags       |-> flags]} :
                       /\ pos' = dli.pos
                       /\ IF HasMask(flags, COMPRESSED)
                          THEN /\ pc' = "panic"
                               /\ fault' = "not yet implemented: Compressed frames"
                               /\ fhdr' = <<>>
                          ELSE IF HasMask(flags, ENCRYPTED)
                          THEN /\ pc' = "panic"
                               /\ fault' = "not yet implemented: Encrypted frames"
                               /\ fhdr' = <<>>
                          ELSE /\ pc' = "body"
                               /\ fault' = fault
                               /\ fhdr' = <<h>>
    /\ UNCHANGED <<stream, header, size, frames, result, arg, ret>>

\* ID3Frame::new_from_byte_reader, the Some(header) arm, and frames.push(frame)
DecodeFrameBody ==
    /\ pc = "body"
    /\ \E h \in {fhdr[1]} :
       \E r \in {ReadBytes(stream, pos, h.size)} :
       \E m \in {MakeFrame(h, r.buf)} :
           /\ pos' = r.pos
           /\ IF m.ok
              THEN /\ frames' = frames \o m.frame
                   /\ pc' = "frames"
                   /\ fault' = fault
              ELSE /\ frames' = frames
                   /\ pc' = "panic"
                   /\ fault' = "index out of bounds"
    /\ fhdr' = <<>>
    /\ UNCHANGED <<stream, header, size, idpos, idbuf, result, arg, ret>>

\* ID3Frame::new_from_byte_reader, the None arm; the loop of
\* ID3Body::new_from_byte_reader then ends and the tag is returned
FrameNone ==
    /\ pc = "none"
    /\ \E sk \in {SeekCurrent(pos, -4)} :
           /\ pos' = sk.pos
           /\ pc' = IF sk.ok THEN "done" ELSE "error"
           /\ fault' = IF sk.ok THEN fault ELSE "invalid seek"
    /\ UNCHANGED <<stream, header, size, fhdr, frames, idpos, idbuf, result, arg, ret>>

----------------------------------------------------------------------------
(* The lookups on a decoded tag *)

LookupNames == {TIT2, TXXX, TALB, LowerTit2}

\* ID3::find_frame_by_name
LookupFirst(name) ==
    /\ pc = "done"
    /\ result' = [op |-> "find_frame_by_name", name |-> name,
                  value |-> FindFrameByName(frames, name)]
    /\ UNCHANGED <<stream, pos, pc, fault, header, size, fhdr, frames, idpos, idbuf, arg, ret>>

\* ID3::find_frames_by_name
LookupAll(name) ==
    /\ pc = "done"
    /\ result' = [op |-> "find_frames_by_name", name |-> name,
                  value |-> FindFramesByName(frames, name)]
    /\ UNCHANGED <<stream, pos, pc, fault, header, size, fhdr, frames, idpos, idbuf, arg, ret>>

Decode ==
    \/ DecodeHeader
    \/ DecodeExtendedHeader
    \/ DecodeFrameHeader
    \/ DecodeFrameBody
    \/ FrameNone

Next ==
    \/ Decode
    \/ \E name \in LookupNames : LookupFirst(name)
    \/ \E name \in LookupNames : LookupAll(name)

Spec == Init /\ [][Next]_vars

\* the decode alone: one synchronous call, which runs until it returns or fails
LiveSpec == Init /\ [][Decode]_vars /\ WF_vars(Decode)

----------------------------------------------------------------------------
(* read_u32_syncsafe applied on its own to a source of four bytes *)

SyncBytes == {0, 1, 127, 128, 255}

InitSyncsafe ==
    /\ stream \in [1..4 -> SyncBytes]
    /\ pos = 0
    /\ pc = "call"
    /\ fault = ""
    /\ header = <<>>
    /\ size = U32Of(0)
    /\ fhdr = <<>>
    /\ frames = <<>>
    /\ idpos = 0
    /\ idbuf = <<>>
    /\ result = NoResult
    /\ arg = <<>>
    /\ ret = 0

ApplyReadU32Syncsafe ==
    /\ pc = "call"
    /\ LET r == ReadU32Syncsafe(stream, pos)
       IN  /\ ret' = r.val
           /\ pos' = r.pos
    /\ pc' = "ret"
    /\ UNCHANGED <<stream, fault, header, size, fhdr, frames, idpos, idbuf, result, arg>>

SpecSyncsafe == InitSyncsafe /\ [][ApplyReadU32Syncsafe]_vars

----------------------------------------------------------------------------
(* The frame flags of ID3FrameHeader::new_from_byte_reader applied on their
   own to every 16-bit word *)

FlagVersions == {2, 3, 4}

FlagWords == 0..65535

InitFlags ==
    /\ arg \in [version : FlagVersions, w : FlagWords]
    /\ ret = <<>>
    /\ stream = <<>>
    /\ pos = 0
    /\ pc = "call"
    /\ fault = ""
    /\ header = <<>>
    /\ size = U32Of(0)
    /\ fhdr = <<>>
    /\ frames = <<>>
    /\ idpos = 0
    /\ idbuf = <<>>
    /\ result = NoResult

ApplyFrameHeaderFlags ==
    /\ pc = "call"
    /\ LET flags == FrameHeaderFlags(arg.version, arg.w)
       IN  ret' = [flags |-> flags, header_size |-> HeaderSize(flags)]
    /\ pc' = "ret"
    /\ UNCHANGED <<stream, pos, fault, header, size, fhdr, frames, idpos, idbuf, result, arg>>

SpecFlags == InitFlags /\ [][ApplyFrameHeaderFlags]_vars

----------------------------------------------------------------------------
(* The frame content decoder applied on its own to an identifier and a body *)

TextIds == {TIT2, TXXX, APIC, <<84, 0, 0, 0>>}

\* the encoding byte
TextEncs == {0, 1, 2, 3, 4, 255}

\* NUL, "A", a lone Latin-1 e-acute, and the two bytes of a UTF-8 e-acute
TextBytes == {0, 65, 233, 195, 169}

TextBodies ==
    {<<>>} \cup
    { <<enc>> \o text :
        enc \in TextEncs,
        text \in UNION { [1..n -> TextBytes] : n \in 0..MaxText } }

InitText ==
    /\ arg \in [id : TextIds, body : TextBodies]
    /\ ret = <<>>
    /\ stream = <<>>
    /\ pos = 0
    /\ pc = "call"
    /\ fault = ""
    /\ header = <<>>
    /\ size = U32Of(0)
    /\ fhdr = <<>>
    /\ frames = <<>>
    /\ idpos = 0
    /\ idbuf = <<>>
    /\ result = NoResult

\* a frame header without flags, as ID3FrameHeader::new_from_byte_reader builds it
PlainFrameHeader(idbytes, n) ==
    [id          |-> Utf8Lossy(idbytes),
     size        |-> n,
     header_size |-> HeaderSize(0),
     uncompressed_body_size |-> <<>>,
     grouping_id |-> <<>>,
     flags       |-> 0]

ApplyMakeFrame ==
    /\ pc = "call"
    /\ ret' = MakeFrame(PlainFrameHeader(arg.id, Len(arg.body)), arg.body)
    /\ pc' = "ret"
    /\ UNCHANGED <<stream, pos, fault, header, size, fhdr, frames, idpos, idbuf, result, arg>>

SpecText == InitText /\ [][ApplyMakeFrame]_vars

----------------------------------------------------------------------------
(* Properties *)

Terminal == pc \in {"done", "error", "panic"}

\* the smallest element of a non-empty set of integers
MinOf(S) == CHOOSE x \in S : \A y \in S : x <= y

\* C1: when the frame loop has read a whole 4-byte identifier whose first
\* byte is zero and the decode has returned, the cursor stands where that
\* identifier starts (rewound by exactly 4), and reading 4 bytes again
\* returns the same zero-prefixed identifier.
C1_CursorAtPaddingStart ==
    (pc = "done" /\ idpos + 4 <= Len(stream)) =>
        /\ idbuf[1] = 0
        /\ pos = idpos
        /\ ReadBytes(stream, pos, 4).buf = idbuf

\* C2: a frame whose declared size exceeds the bytes the stream still holds
\* yields no frame (read_bytes returns the next n bytes of the stream or
\* fails; it never hands out bytes that were not in the stream).
C2_TruncatedBodyYieldsNoFrame ==
    [][(pc = "body" /\ fhdr[1].size > Len(stream) - pos)
          => Len(frames') = Len(frames)]_vars

\* C3: while frames are decoded, the cursor never passes offset 10 + S, where
\* S is the size the tag header declares (the most generous reading of the
\* bound: the extended header only lowers it).
C3_BoundedByDeclaredSize ==
    (pc = "body" \/ (pc = "frames" /\ Len(frames) > 0))
        => pos <= 10 + header[1].size

\* the 4 bytes of the size field of the frame header read at idpos
SizeField == ReadBytes(stream, Min(idpos + 4, Len(stream)), 4).buf

\* the size the frame size field stands for, by the major version of the tag
ForkedSize(version, b) ==
    IF version = 4
    THEN (b[1] % 128) * 2097152 + (b[2] % 128) * 16384 + (b[3] % 128) * 128 + (b[4] % 128)
    ELSE b[1] * 16777216 + b[2] * 65536 + b[3] * 256 + b[4]

\* the first half of C4 alone: the declared size of a decoded frame header is
\* the syncsafe value of its size field (bytes below 128) for major version 4
\* and the big-endian value for any other
SizeForkHolds ==
    pc = "body" =>
        ((header[1].version[1] = 4 => \A i \in 1..4 : SizeField[i] < 128)
            => fhdr[1].size = ForkedSize(header[1].version[1], SizeField))

\* C4: the declared size of a frame is the syncsafe value of its size field
\* for major version 4 and the big-endian value otherwise, and the decoder
\* then consumes exactly that many body bytes of the stream for the frame.
C4_SizeForkAndBodyConsumed ==
    [][(pc = "body" /\ Len(frames') > Len(frames))
          => /\ ((header[1].version[1] = 4 => \A i \in 1..4 : SizeField[i] < 128)
                    => fhdr[1].size = ForkedSize(header[1].version[1], SizeField))
             /\ pos' - pos = fhdr[1].size]_vars

\* C5: read_u32_syncsafe returns the sum of the low 7 bits of each of the 4
\* bytes, shifted by 21, 14, 7 and 0, a value of at most 0x0FFFFFFF.
C5_SyncsafeLowSevenBits ==
    pc = "ret" =>
        /\ ret = (stream[1] % 128) * 2097152 + (stream[2] % 128) * 16384
                    + (stream[3] % 128) * 128 + (stream[4] % 128)
        /\ ret >= 0
        /\ ret <= 268435455

\* the normalized flags of f that are among `masks` are exactly those whose
\* bit of w, in the order given, is set
SetIff(f, w, masks, bits) ==
    \A i \in 1..Len(masks) : HasMask(f, masks[i]) <=> Bit(w, bits[i]) = 1

\* C6: for a major version other than 4 the normalized flags TagAlterPreserved,
\* FileAlterPreserved, ReadOnly, Compressed, Encrypted, Grouping are set iff
\* bits 15, 14, 13, 7, 6, 5 of the word are, Unsynchronisation and
\* DataLengthIndicator never are (so the header size never counts the 4 bytes
\* of a data length); for major version 4 they are set iff bits 14, 13, 12, 3,
\* 2, 6 are, Unsynchronisation iff bit 1 and DataLengthIndicator iff bit 0.
\* No other bit of the word shows in the result.
C6_FlagNormalization ==
    pc = "ret" =>
        LET f == ret.flags
            w == arg.w
        IN  /\ IF arg.version # 4
               THEN /\ SetIff(f, w,
                         <<TAG_ALTER_PRESERVED, FILE_ALTER_PRESERVED, READ_ONLY,
                           COMPRESSED, ENCRYPTED, GROUPING>>,
                         <<15, 14, 13, 7, 6, 5>>)
                    /\ ~HasMask(f, UNSYNCHRONISATION)
                    /\ ~HasMask(f, DATA_LENGTH_INDICATOR)
                    /\ ret.header_size = 10 + Bit(w, 5)
               ELSE /\ SetIff(f, w,
                         <<TAG_ALTER_PRESERVED, FILE_ALTER_PRESERVED, READ_ONLY,
                           COMPRESSED, ENCRYPTED, GROUPING,
                           UNSYNCHRONISATION, DATA_LENGTH_INDICATOR>>,
                         <<14, 13, 12, 3, 2, 6, 1, 0>>)
                    /\ ret.header_size = 10 + Bit(w, 6) + 4 * Bit(w, 0)
            /\ \A k \in 0..15 :
                  Bit(f, k) = 1 => Pow2(k) \in V4Masks

\* a version 2.3 word with bit 7 set and a version 2.4 word with bit 3 set
\* both normalize to Compressed
C6_Witness ==
    /\ pc = "ret"
    /\ \/ arg.version = 3 /\ arg.w = 128
       \/ arg.version = 4 /\ arg.w = 8
    /\ ret.flags = COMPRESSED

\* the bytes of t before its first zero byte, or all of t
BeforeFirstZero(t) ==
    LET Z == {i \in 1..Len(t) : t[i] = 0}
    IN  IF Z = {} THEN t ELSE SubSeq(t, 1, MinOf(Z) - 1)

IsTextId(idbytes) == idbytes[1] = 84 /\ idbytes # <<84, 88, 88, 88>>

Matching(name) == {i \in 1..Len(frames) : frames[i].header.id = name}

LookupCorrect ==
    pc = "done" =>
        LET M == Matching(result.name)
            v == result.value
        IN  /\ result.op = "find_frames_by_name" =>
                 /\ Len(v) = Cardinality(M)
                 /\ \E f \in [1..Len(v) -> M] :
                       /\ \A j, k \in 1..Len(v) : j < k => f[j] < f[k]
                       /\ \A k \in 1..Len(v) : v[k] = frames[f[k]]
            /\ result.op = "find_frame_by_name" =>
                 IF M = {} THEN v = <<>> ELSE v = <<frames[MinOf(M)]>>

\* C8: find_frames_by_name returns exactly the frames whose identifier equals
\* the name, in the order of the tag and with duplicates kept;
\* find_frame_by_name returns the first of them, or none iff there is none;
\* neither changes the frames of the tag.
C8_LookupSemantics ==
    /\ []LookupCorrect
    /\ [][(pc = "done") => (frames' = frames)]_vars

\* the tag holds two different frames of one identifier and the lookup of the
\* first returned the first
C8_Witness ==
    /\ pc = "done"
    /\ Len(frames) >= 2
    /\ frames[1].header.id = frames[2].header.id
    /\ frames[1] # frames[2]
    /\ result.op = "find_frame_by_name"
    /\ result.name = frames[1].header.id
    /\ result.value = <<frames[1]>>

\* C9: the content decoder returns a text for every text frame, whatever the
\* length of its body, a declared size of 0 included: it never crashes.
C9_TextContentTotal ==
    ~(pc = "panic" /\ fault = "index out of bounds")

\* C10: the decode comes to an end (a tag, an error or a panic); every
\* iteration of the frame loop that yields a frame leaves the cursor strictly
\* after the place where the iteration began; and the loop stops at the first
\* identifier read whose first byte is zero, at or across the end of the
\* stream too: no frame is added from then on.
C10_FrameLoopTerminates ==
    /\ <>Terminal
    /\ [][Len(frames') > Len(frames) => pos' > idpos]_vars
    /\ [][(pc = "frames" /\ pc' # "frames" /\ idbuf'[1] = 0)
             => pc' \in {"none", "error"}]_vars
    /\ [][(pc \in {"none", "done", "error", "panic"})
             => (frames' = frames /\ pc' \in {"done", "error", "panic"})]_vars

\* a decode that returned a tag with a frame after an identifier read that
\* reached past the end of the stream
C10_Witness ==
    /\ pc = "done"
    /\ Len(frames) >= 1
    /\ idbuf[1] = 0
    /\ idpos + 4 > Len(stream)

====
